---- MODULE Spec2Model ----
(***************************************************************************)
(* Flight market simulation and best-flight selection (solution.py).       *)
(*                                                                         *)
(* FlightOption.__init__ builds one offer from a day index, the market     *)
(* base price, the start-day offset and three random draws;                *)
(* FlightOption.calculate_score maps an offer to its pain score;           *)
(* generate_flight_data runs a random walk of the base price and appends   *)
(* one offer per day; find_best_flight scans for the lowest score.         *)
(*                                                                         *)
(* Random draws are nondeterministic choices from sets.  An object         *)
(* reference (Optional[FlightOption]) is the 1-based position of the       *)
(* object in the list flights, and None is 0; the 0-based index of the     *)
(* source is that position minus one.                                      *)
(***************************************************************************)
EXTENDS Integers, Sequences, FiniteSets

VARIABLES pc, days, day, market_price, start_day_offset, flights, base_used,
          best_flight, lowest_score, idx, score, rescore

vars == <<pc, days, day, market_price, start_day_offset, flights, base_used,
          best_flight, lowest_score, idx, score, rescore>>

(***************************************************************************)
(* Module constants of solution.py                                         *)
(***************************************************************************)
VALUE_OF_DIRECT_FLIGHT == 60
VALUE_OF_GOOD_TIME == 40
VALUE_OF_PREMIUM_AIRLINE == 50
DAILY_PATIENCE_COST == 5
DAYS_OF_WEEK == <<"Mon", "Tue", "Wed", "Thu", "Fri", "Sat", "Sun">>

(***************************************************************************)
(* Bounds of the model                                                     *)
(***************************************************************************)
MaxDays == 10
MaxNeg == 2
MaxDayIndex == 9
MaxOffers == 2

Max(a, b) == IF a >= b THEN a ELSE b

None == 0

\* float('inf'): greater than every integer
INF == [inf |-> TRUE, v |-> 0]
Fin(n) == [inf |-> FALSE, v |-> n]
LessThan(s, low) == low.inf \/ s < low.v

(***************************************************************************)
(* Ranges of the random draws                                              *)
(***************************************************************************)
InitialPrices == 700..1100
StartOffsets == 0..6
Steps == -60..60
Hours == 5..23

(***************************************************************************)
(* FlightOption.__init__                                                   *)
(***************************************************************************)
\* variant: the start offset is ignored
DayNameNoOffset(day_index, offset) ==
    LET current_day_num == day_index % 7
    IN  DAYS_OF_WEEK[current_day_num + 1]

DayName(day_index, offset) ==
    LET current_day_num == (day_index + offset) % 7
    IN  DAYS_OF_WEEK[current_day_num + 1]

TierModifier(premium) == IF premium THEN 50 ELSE -30

TypeModifier(layover) == IF layover THEN -60 ELSE 20

WeekendTax(day_name) ==
    IF day_name \in {"Fri", "Sun"} THEN 80
    ELSE IF day_name \in {"Tue", "Wed"} THEN -40
    ELSE 0

\* variant: the spike also hits day 3
PanicSpikeInclusive(day_index) == IF day_index <= 3 THEN 150 ELSE 0

PanicSpike(day_index) == IF day_index < 3 THEN 150 ELSE 0

TimeQuality(hour) ==
    IF 10 <= hour /\ hour <= 16 THEN "Prime"
    ELSE IF hour < 8 \/ hour > 20 THEN "Awkward"
    ELSE "Standard"

TimeModifier(time_quality) ==
    IF time_quality = "Prime" THEN 30
    ELSE IF time_quality = "Awkward" THEN -30
    ELSE 0

\* f"{hour:02d}:00": two decimal digits, then ":00"
TimeStr(hour) == <<hour \div 10, hour % 10, ":00">>

\* variant: no floor
PriceNoFloor(price) == price

PriceFloor(price) == Max(100, price)

\* premium, layover: outcomes of the two random.random() tests;
\* hour: outcome of random.randint(5, 23)
FlightOption(day_index, base_market_price, offset, premium, layover, hour) ==
    LET day_name == DayName(day_index, offset)
        price_modifier == TierModifier(premium) + TypeModifier(layover)
        price0 == base_market_price + price_modifier
        price1 == price0 + WeekendTax(day_name)
        price2 == price1 + PanicSpike(day_index)
        time_quality == TimeQuality(hour)
        price3 == price2 + TimeModifier(time_quality)
    IN  [day_index     |-> day_index,
         day_name      |-> day_name,
         airline       |-> IF premium THEN "LuxAir" ELSE "CheapJet",
         quality_bonus |-> premium,
         is_direct     |-> ~layover,
         time_str      |-> TimeStr(hour),
         time_quality  |-> time_quality,
         price         |-> PriceFloor(price3)]

(***************************************************************************)
(* FlightOption.calculate_score                                            *)
(***************************************************************************)
\* variant: the premium bonus is added instead of subtracted
calculate_score_bonus_added(self) ==
    LET s0 == self.price
        s1 == s0 + (self.day_index * DAILY_PATIENCE_COST)
        s2 == IF ~self.is_direct THEN s1 + VALUE_OF_DIRECT_FLIGHT ELSE s1
        s3 == IF self.time_quality = "Awkward" THEN s2 + VALUE_OF_GOOD_TIME ELSE s2
        s4 == IF self.quality_bonus THEN s3 + VALUE_OF_PREMIUM_AIRLINE ELSE s3
    IN  s4

\* variant: the patience cost is subtracted instead of added
calculate_score_patience_subtracted(self) ==
    LET s0 == self.price
        s1 == s0 - (self.day_index * DAILY_PATIENCE_COST)
        s2 == IF ~self.is_direct THEN s1 + VALUE_OF_DIRECT_FLIGHT ELSE s1
        s3 == IF self.time_quality = "Awkward" THEN s2 + VALUE_OF_GOOD_TIME ELSE s2
        s4 == IF self.quality_bonus THEN s3 - VALUE_OF_PREMIUM_AIRLINE ELSE s3
    IN  s4

calculate_score(self) ==
    LET s0 == self.price
        s1 == s0 + (self.day_index * DAILY_PATIENCE_COST)
        s2 == IF ~self.is_direct THEN s1 + VALUE_OF_DIRECT_FLIGHT ELSE s1
        s3 == IF self.time_quality = "Awkward" THEN s2 + VALUE_OF_GOOD_TIME ELSE s2
        s4 == IF self.quality_bonus THEN s3 - VALUE_OF_PREMIUM_AIRLINE ELSE s3
    IN  s4

(***************************************************************************)
(* generate_flight_data                                                    *)
(***************************************************************************)
\* variant: no floor
MarketNoFloor(price) == price

MarketFloor(price) == Max(200, price)

\* for day in range(days): the loop body runs for day = 0, ..., days - 1
\* variant: the last day is left out
InRangeShort(d, n) == d < n - 1

\* variant: one day too many
InRangeInclusive(d, n) == d <= n

InRange(d, n) == d < n

\* flights = []; market_price = random.randint(700, 1100);
\* start_day_offset = random.randint(0, 6)
GenStart(prices, offsets) ==
    /\ pc = "start"
    /\ flights' = <<>>
    /\ market_price' \in prices
    /\ start_day_offset' \in offsets
    /\ day' = 0
    /\ pc' = "for"
    /\ UNCHANGED <<days, base_used, best_flight, lowest_score, idx, score, rescore>>

\* for day in range(days): flights.append(FlightOption(day, market_price, start_day_offset))
GenAppend(premiums, layovers, hours) ==
    /\ pc = "for"
    /\ InRange(day, days)
    /\ \E premium \in premiums, layover \in layovers, hour \in hours :
          flights' = Append(flights,
              FlightOption(day, market_price, start_day_offset, premium, layover, hour))
    /\ base_used' = Append(base_used, market_price)
    /\ pc' = "drift"
    /\ UNCHANGED <<days, day, market_price, start_day_offset,
                   best_flight, lowest_score, idx, score, rescore>>

\* market_price += random.randint(-60, 60); market_price = max(200, market_price)
GenDrift(steps) ==
    /\ pc = "drift"
    /\ \E step \in steps : market_price' = MarketFloor(market_price + step)
    /\ day' = day + 1
    /\ pc' = "for"
    /\ UNCHANGED <<days, start_day_offset, flights, base_used,
                   best_flight, lowest_score, idx, score, rescore>>

\* range(days) exhausted: return flights
GenReturn ==
    /\ pc = "for"
    /\ ~InRange(day, days)
    /\ pc' = "find"
    /\ UNCHANGED <<days, day, market_price, start_day_offset, flights, base_used,
                   best_flight, lowest_score, idx, score, rescore>>

(***************************************************************************)
(* find_best_flight                                                        *)
(***************************************************************************)
\* variant: best_flight starts as the first element instead of None
FindEnterFirst ==
    /\ pc = "find"
    /\ best_flight' = 1
    /\ lowest_score' = INF
    /\ idx' = 1
    /\ pc' = "scan"
    /\ UNCHANGED <<days, day, market_price, start_day_offset, flights, base_used,
                   score, rescore>>

\* best_flight = None; lowest_score = float('inf')
FindEnter ==
    /\ pc = "find"
    /\ best_flight' = None
    /\ lowest_score' = INF
    /\ idx' = 1
    /\ pc' = "scan"
    /\ UNCHANGED <<days, day, market_price, start_day_offset, flights, base_used,
                   score, rescore>>

\* variant: <= instead of <
ScanUpdateLe(s, low) == low.inf \/ s <= low.v

\* if score < lowest_score
ScanUpdate(s, low) == LessThan(s, low)

\* one iteration of: for flight in flights
FindScan ==
    /\ pc = "scan"
    /\ idx <= Len(flights)
    /\ LET s == calculate_score(flights[idx])
       IN  /\ score' = s
           /\ IF ScanUpdate(s, lowest_score)
              THEN /\ lowest_score' = Fin(s)
                   /\ best_flight' = idx
              ELSE UNCHANGED <<lowest_score, best_flight>>
    /\ idx' = idx + 1
    /\ UNCHANGED <<pc, days, day, market_price, start_day_offset, flights,
                   base_used, rescore>>

\* return best_flight
FindReturn ==
    /\ pc = "scan"
    /\ idx > Len(flights)
    /\ pc' = "done"
    /\ UNCHANGED <<days, day, market_price, start_day_offset, flights, base_used,
                   best_flight, lowest_score, idx, score, rescore>>

(***************************************************************************)
(* The program: generate_flight_data(days), then find_best_flight on the   *)
(* market it returned.  The generator's draws are taken from these         *)
(* subsets of their ranges.                                                *)
(***************************************************************************)
GenPrices == {p \in InitialPrices : p \in {700, 1100}}
GenSteps == {st \in Steps : st \in {-60, 60}}
GenPremiums == {FALSE}
GenLayovers == {TRUE}
GenHours == {5}

Init ==
    /\ pc = "start"
    /\ days \in (0 - MaxNeg)..MaxDays
    /\ day = 0
    /\ market_price = 0
    /\ start_day_offset = 0
    /\ flights = <<>>
    /\ base_used = <<>>
    /\ best_flight = None
    /\ lowest_score = INF
    /\ idx = 1
    /\ score = 0
    /\ rescore = 0

Next ==
    \/ GenStart(GenPrices, StartOffsets)
    \/ GenAppend(GenPremiums, GenLayovers, GenHours)
    \/ GenDrift(GenSteps)
    \/ GenReturn
    \/ FindEnter
    \/ FindScan
    \/ FindReturn

Spec == Init /\ [][Next]_vars

\* the program is a single thread that runs until it returns
FairSpec == Init /\ [][Next]_vars /\ WF_vars(Next)

(***************************************************************************)
(* One constructor call, FlightOption(day, market_price, start_day_offset),*)
(* on arguments generate_flight_data can pass for that day, followed by    *)
(* two calculate_score calls on the new object.                            *)
(***************************************************************************)
\* market_price before day d: d steps of at most 60 away from the initial
\* draw, never below the floor of 200
BaseLo(d) == Max(200, 700 - 60 * d)
BaseHi(d) == 1100 + 60 * d
BaseSamples(d) == {BaseLo(d), BaseLo(d) + 30, BaseHi(d) - 60 * d, BaseHi(d)}

\* flight = FlightOption(day, market_price, start_day_offset)
Construct(premiums, layovers, hours) ==
    /\ pc = "new"
    /\ \E premium \in premiums, layover \in layovers, hour \in hours :
          flights' = <<FlightOption(day, market_price, start_day_offset,
                                    premium, layover, hour)>>
    /\ base_used' = <<market_price>>
    /\ pc' = "made"
    /\ UNCHANGED <<days, day, market_price, start_day_offset,
                   best_flight, lowest_score, idx, score, rescore>>

\* score = flight.calculate_score()
ScoreCall ==
    /\ pc = "made"
    /\ score' = calculate_score(flights[1])
    /\ pc' = "scored"
    /\ UNCHANGED <<days, day, market_price, start_day_offset, flights, base_used,
                   best_flight, lowest_score, idx, rescore>>

\* a second flight.calculate_score() on the same object
ScoreAgain ==
    /\ pc = "scored"
    /\ rescore' = calculate_score(flights[1])
    /\ pc' = "rescored"
    /\ UNCHANGED <<days, day, market_price, start_day_offset, flights, base_used,
                   best_flight, lowest_score, idx, score>>

InitOffer ==
    /\ pc = "new"
    /\ days = 0
    /\ day \in 0..MaxDayIndex
    /\ market_price \in BaseSamples(day)
    /\ start_day_offset \in StartOffsets
    /\ flights = <<>>
    /\ base_used = <<>>
    /\ best_flight = None
    /\ lowest_score = INF
    /\ idx = 1
    /\ score = 0
    /\ rescore = 0

NextOffer ==
    \/ Construct(BOOLEAN, BOOLEAN, Hours)
    \/ ScoreCall
    \/ ScoreAgain

SpecOffer == InitOffer /\ [][NextOffer]_vars

(***************************************************************************)
(* calculate_score on an arbitrary offer object.                           *)
(***************************************************************************)
ScorePrices == {100, 500, 700}
ScoreDays == {0, 1, 10}
ScoreHours == {5, 9, 12, 21}

OfferPool ==
    { [day_index     |-> d,
       day_name      |-> n,
       airline       |-> IF q THEN "LuxAir" ELSE "CheapJet",
       quality_bonus |-> q,
       is_direct     |-> dir,
       time_str      |-> TimeStr(h),
       time_quality  |-> TimeQuality(h),
       price         |-> p] :
      d \in ScoreDays, n \in {"Mon", "Wed", "Fri"}, q \in BOOLEAN,
      dir \in BOOLEAN, h \in ScoreHours, p \in ScorePrices }

InitScore ==
    /\ pc = "made"
    /\ days = 0
    /\ day = 0
    /\ market_price = 0
    /\ start_day_offset = 0
    /\ flights \in { <<o>> : o \in OfferPool }
    /\ base_used = <<>>
    /\ best_flight = None
    /\ lowest_score = INF
    /\ idx = 1
    /\ score = 0
    /\ rescore = 0

NextScore ==
    \/ ScoreCall
    \/ ScoreAgain

SpecScore == InitScore /\ [][NextScore]_vars

(***************************************************************************)
(* find_best_flight on an arbitrary list of offers.                        *)
(***************************************************************************)
SelectPool ==
    { o \in OfferPool : /\ o.day_name = "Mon"
                        /\ o.day_index \in {0, 10}
                        /\ o.price \in {500, 700}
                        /\ o.time_str \in {TimeStr(5), TimeStr(12)} }

SelectInputs ==
    UNION { [1..n -> SelectPool] : n \in 0..MaxOffers }

InitSelect ==
    /\ pc = "find"
    /\ days = 0
    /\ day = 0
    /\ market_price = 0
    /\ start_day_offset = 0
    /\ flights \in SelectInputs
    /\ base_used = <<>>
    /\ best_flight = None
    /\ lowest_score = INF
    /\ idx = 1
    /\ score = 0
    /\ rescore = 0

NextSelect ==
    \/ FindEnter
    \/ FindScan
    \/ FindReturn

SpecSelect == InitSelect /\ [][NextSelect]_vars

(***************************************************************************)
(* Properties                                                              *)
(***************************************************************************)
Returned == pc \in {"find", "scan", "done"}

DayNum(name) == CHOOSE i \in 0..6 : DAYS_OF_WEEK[i + 1] = name

Hour(o) == 10 * o.time_str[1] + o.time_str[2]

\* C1: on a non-empty list find_best_flight returns an element of the list
\* whose score is at most the score of every element, and among the elements
\* with the minimum score the one at the smallest index.
C1_SelectsFirstMinimum ==
    (pc = "done" /\ Len(flights) > 0) =>
        /\ best_flight \in 1..Len(flights)
        /\ \A k \in 1..Len(flights) :
              calculate_score(flights[best_flight]) <= calculate_score(flights[k])
        /\ \A k \in 1..Len(flights) :
              k < best_flight =>
                  calculate_score(flights[k]) > calculate_score(flights[best_flight])

\* two different offers tie for the minimum and the first one is returned
C1_Witness ==
    /\ pc = "done"
    /\ Len(flights) = 2
    /\ flights[1] # flights[2]
    /\ calculate_score(flights[1]) = calculate_score(flights[2])
    /\ best_flight = 1

\* the second of two offers has the strictly lower score and is returned
C1_WitnessSecond ==
    /\ pc = "done"
    /\ Len(flights) = 2
    /\ calculate_score(flights[1]) = 750
    /\ calculate_score(flights[2]) = 600
    /\ best_flight = 2

\* C2: on an empty list find_best_flight returns None, no offer.
C2_EmptyGivesNone ==
    (pc = "done" /\ Len(flights) = 0) => best_flight = None

C2_Witness ==
    /\ pc = "done"
    /\ flights = <<>>
    /\ best_flight = None
    /\ lowest_score = INF

\* the score formula of the specification
ScoreFormula(o) ==
    o.price + 5 * o.day_index
    + (IF o.is_direct THEN 0 ELSE 60)
    + (IF o.time_quality = "Awkward" THEN 40 ELSE 0)
    - (IF o.quality_bonus THEN 50 ELSE 0)

\* C3 as stated, with the worked example price=500, day_index=10, layover,
\* Awkward, Premium giving 650.
C3_AsStated ==
    /\ pc \in {"scored", "rescored"} =>
          /\ score = ScoreFormula(flights[1])
          /\ (/\ flights[1].price = 500 /\ flights[1].day_index = 10
              /\ ~flights[1].is_direct /\ flights[1].time_quality = "Awkward"
              /\ flights[1].quality_bonus) => score = 650
          /\ (/\ flights[1].price = 700 /\ flights[1].day_index = 0
              /\ flights[1].is_direct /\ flights[1].time_quality = "Prime"
              /\ ~flights[1].quality_bonus) => score = 700
    /\ pc = "rescored" => rescore = score

C3_ScoreValue ==
    /\ pc \in {"scored", "rescored"} =>
          /\ score = ScoreFormula(flights[1])
          /\ (/\ flights[1].price = 500 /\ flights[1].day_index = 10
              /\ ~flights[1].is_direct /\ flights[1].time_quality = "Awkward"
              /\ flights[1].quality_bonus) => score = 600
          /\ (/\ flights[1].price = 700 /\ flights[1].day_index = 0
              /\ flights[1].is_direct /\ flights[1].time_quality = "Prime"
              /\ ~flights[1].quality_bonus) => score = 700
    /\ pc = "rescored" => rescore = score

\* C3: calculate_score is price + 5*day_index + 60 if not direct + 40 if
\* Awkward - 50 if Premium, whatever the other attributes are; a call leaves
\* the offer as it was and a second call returns the same integer; the offer
\* price=500, day_index=10, layover, Awkward, Premium scores 600 and the
\* offer price=700, day_index=0, direct, Prime, Budget scores 700.
C3_ScoreIsTheFormula ==
    /\ []C3_ScoreValue
    /\ [][flights' = flights]_vars

C3_Witness ==
    /\ pc = "rescored"
    /\ flights[1].price = 500
    /\ flights[1].day_index = 10
    /\ ~flights[1].is_direct
    /\ flights[1].time_quality = "Awkward"
    /\ flights[1].quality_bonus
    /\ score = 600
    /\ rescore = 600

C4_Result ==
    (Returned /\ days > 0) =>
        /\ Len(flights) = days
        /\ \A k \in 1..Len(flights) : flights[k].day_index = k - 1

\* C4: for N > 0 generate_flight_data(N) returns, and what it returns is
\* exactly N offers, the one at (0-based) position k having day_index k.
C4_ReturnsNOffersInOrder ==
    /\ []C4_Result
    /\ <>Returned

C4_Witness ==
    /\ pc = "find"
    /\ days = MaxDays
    /\ Len(flights) = MaxDays
    /\ flights[MaxDays].day_index = MaxDays - 1

\* C5: every offer the constructor builds from arguments the generator can
\* pass has price >= 100.
C5_PriceFloor ==
    pc # "new" => flights[1].price >= 100

\* the modifiers take the price below 100 and the floor lifts it to 100
C5_Witness ==
    /\ pc = "made"
    /\ market_price = 200
    /\ day = 9
    /\ flights[1].day_name = "Tue"
    /\ ~flights[1].quality_bonus
    /\ ~flights[1].is_direct
    /\ flights[1].time_quality = "Awkward"
    /\ flights[1].price = 100

C6_DayNames ==
    /\ pc # "start" => start_day_offset \in 0..6
    /\ \A k \in 1..Len(flights) :
          DayNum(flights[k].day_name) = (flights[k].day_index + start_day_offset) % 7
    /\ \A k \in 1..(Len(flights) - 1) :
          DayNum(flights[k + 1].day_name) = (DayNum(flights[k].day_name) + 1) % 7

\* C6: one start offset in [0,6], drawn before the first offer and never
\* changed afterwards, gives every offer of the market its day name as
\* DAYS_OF_WEEK[(day_index + start_offset) mod 7]; consecutive offers carry
\* consecutive week days, Sun being followed by Mon.
C6_OneOffsetPerMarket ==
    /\ []C6_DayNames
    /\ [][pc # "start" => start_day_offset' = start_day_offset]_vars

C6_Witness ==
    /\ Returned
    /\ start_day_offset = 4
    /\ Len(flights) >= 4
    /\ flights[3].day_name = "Sun"
    /\ flights[4].day_name = "Mon"

\* C7: for N <= 0 generate_flight_data returns the empty list.
C7_NonPositiveGivesEmpty ==
    (Returned /\ days <= 0) => flights = <<>>

C7_Witness ==
    /\ pc = "find"
    /\ days < 0
    /\ flights = <<>>

\* the price formula of the specification
PriceFormula(o, base) ==
    LET tier  == IF o.airline = "LuxAir" THEN 50 ELSE -30
        type  == IF o.is_direct THEN 20 ELSE -60
        dow   == IF o.day_name \in {"Fri", "Sun"} THEN 80
                 ELSE IF o.day_name \in {"Tue", "Wed"} THEN -40 ELSE 0
        panic == IF o.day_index < 3 THEN 150 ELSE 0
        time  == IF Hour(o) \in 10..16 THEN 30
                 ELSE IF Hour(o) < 8 \/ Hour(o) > 20 THEN -30 ELSE 0
        total == base + tier + type + dow + panic + time
    IN  IF total < 100 THEN 100 ELSE total

\* C8: price = max(100, base + tier + type + dow + panic + time) with the
\* modifiers of the specification, the hour lies in [5,23] and the time
\* quality is Prime for [10,16], Awkward below 8 or above 20, else Standard.
C8_PriceIsTheFormula ==
    pc # "new" =>
        LET o == flights[1]
        IN  /\ o.price = PriceFormula(o, market_price)
            /\ Hour(o) \in 5..23
            /\ o.time_quality = "Prime" <=> Hour(o) \in 10..16
            /\ o.time_quality = "Awkward" <=> (Hour(o) < 8 \/ Hour(o) > 20)
            /\ o.time_quality = "Standard" <=> (Hour(o) \in 8..9 \/ Hour(o) \in 17..20)
            /\ o.quality_bonus <=> o.airline = "LuxAir"

\* no panic, mid-week dip, Prime time, Premium, direct, above the floor
C8_Witness ==
    /\ pc = "made"
    /\ day = 3
    /\ flights[1].day_name = "Wed"
    /\ flights[1].quality_bonus
    /\ flights[1].is_direct
    /\ Hour(flights[1]) = 16
    /\ flights[1].price = market_price + 50 + 20 - 40 + 30

\* b2 = max(200, b + step) for some step in [-60,60]: either the step
\* b2 - b is in range and lands at 200 or above, or b2 is the floor 200 and
\* some step in range takes b below it
WalkStep(b, b2) ==
    \/ (b2 - b \in -60..60 /\ b2 >= 200)
    \/ (b2 = 200 /\ \E step \in -60..60 : b + step < 200)

\* C9: day 0 is priced from the initial draw in [700,1100]; the base price of
\* day k+1 is max(200, base of day k + step) for one step in [-60,60], the
\* step being taken after day k's offer is appended and before day k+1's is
\* built; so every base price used is >= 200 and within 60 of the previous.
C9_RandomWalk ==
    /\ Len(base_used) = Len(flights)
    /\ Len(base_used) > 0 => base_used[1] \in 700..1100
    /\ \A k \in 1..(Len(base_used) - 1) :
          /\ WalkStep(base_used[k], base_used[k + 1])
          /\ base_used[k + 1] - base_used[k] \in -60..60
    /\ \A k \in 1..Len(base_used) : base_used[k] >= 200
    /\ pc = "for" => Len(flights) = day
    /\ pc = "drift" => Len(flights) = day + 1 /\ base_used[day + 1] = market_price

\* the walk goes below 200 and is floored
C9_Witness ==
    /\ Returned
    /\ Len(base_used) = 10
    /\ base_used[1] = 700
    /\ base_used[9] = 220
    /\ base_used[10] = 200

\* C10: the score of an offer built for the generator is at least its
\* price - 50 and at least 50.
C10_ScoreAtLeastFifty ==
    pc \in {"scored", "rescored"} =>
        /\ score >= flights[1].price - 50
        /\ score >= 50

\* the bound price - 50 is met: Premium, direct, not Awkward, day 0
C10_Witness ==
    /\ pc = "scored"
    /\ flights[1].quality_bonus
    /\ score = flights[1].price - 50

====
